---- MODULE Spec2Model ----
(***************************************************************************)
(* Model of the file-to-video codec of file-to-video-backend:              *)
(*   app/utils/conversion.py  convert_file_to_video   (encode)             *)
(*   app/utils/utils.py       convert_video_to_file   (decode)             *)
(* The state is the on-disk store (uploaded file, video, color mapping,    *)
(* metadata, reconstructed file) plus the local variables and the control  *)
(* position of the encode coroutine and of the decode coroutine.           *)
(***************************************************************************)
EXTENDS Integers, Sequences, FiniteSets, TLC

\* ------------------------------------------------------------------ bounds
\* Longest uploaded content, in bytes.
MaxLen == 2
\* Number of encode requests served in one behaviour.
MaxEncodes == 2
\* Number of frames submitted to the thread pool: range(30) in the source,
\* cut down to the frames around the data frame (index 5) so that every
\* completion order of the workers can be enumerated.
PoolFrames == 7

\* ------------------------------------------------------- program constants
NUM_THREADS == 8
frame_height == 4320
frame_width == 7680
\* range(30) of the black buffer written before the pool's frames
FillerFrames == 30
\* process_frame paints the block when frame_idx == 5
DataFrameIdx == 5
\* byte_to_block_map records "frame": 6 for every byte
ManifestFrame == 6
\* convert_video_to_file seeks to frame 6 and keeps the entries of frame 6
SeekFrame == 6
\* side of the painted and of the sampled block
BlockSide == 4
\* bytearray.append accepts 0..255
ByteMax == 255

VIDEO_PATH == "generated_videos/sample_video.mp4"
RECONSTRUCTED_FILE_PATH == "reconstructed_file.bin"
None == "None"
Pending == "pending"

\* Byte value an uploaded content is made of: the encoder reads the content's
\* length and digest only, so the contents differ by their length.
InputBytes == {65}
\* Uploaded file names, as their '.'-separated parts.
FileNames == {<<"a", "bin">>}

RECURSIVE SeqsUpTo(_, _)
SeqsUpTo(S, n) ==
    IF n = 0 THEN {<<>>}
    ELSE LET shorter == SeqsUpTo(S, n - 1)
         IN shorter \cup {Append(s, x) : s \in {t \in shorter : Len(t) = n - 1}, x \in S}

Contents == SeqsUpTo(InputBytes, MaxLen)

\* ------------------------------------------------------------ JSON and hash
\* json.dump writes an integer dictionary key as its decimal string.
Str(i) == ToString(i)
\* Largest integer a key of the modelled stores can denote.
KeyRange == 300
\* int(s) of a decimal string
ParseInt(s) == CHOOSE i \in 0..KeyRange : ToString(i) = s

\* hashlib.sha256(content).hexdigest(): a digest that differs whenever the
\* contents differ.
Sha256(bytes) == [sha256 |-> bytes]

\* A Python dict is an insertion-ordered list of <<key, value>> pairs.
Keys(d) == {d[k][1] : k \in 1..Len(d)}
HasKey(d, key) == \E k \in 1..Len(d) : d[k][1] = key
Lookup(d, key) == d[CHOOSE k \in 1..Len(d) : d[k][1] = key][2]

\* json.dump of a dict with integer keys, then json.load: keys come back as strings.
JsonKeys(d) == [k \in 1..Len(d) |-> <<Str(d[k][1]), d[k][2]>>]

\* ------------------------------------------------------------------ frames
\* A frame is a black (all zero) frame_height x frame_width image with the
\* listed solid rectangles painted over it.
BlackFrame == [rects |-> <<>>]
Black == <<0, 0, 0>>

InRect(rc, px, py) ==
    /\ rc.x <= px /\ px < rc.x + rc.w
    /\ rc.y <= py /\ py < rc.y + rc.h

Pixel(frame, px, py) ==
    IF \E k \in 1..Len(frame.rects) : InRect(frame.rects[k], px, py)
    THEN LET last == CHOOSE k \in 1..Len(frame.rects) :
                        /\ InRect(frame.rects[k], px, py)
                        /\ \A m \in (k + 1)..Len(frame.rects) : ~InRect(frame.rects[m], px, py)
         IN frame.rects[last].color
    ELSE Black

\* ------------------------------------------------------------- file records
NoBytesFile == [exists |-> FALSE, bytes |-> <<>>]
NoUpload == [exists |-> FALSE, bytes |-> <<>>, by |-> 0]
NoVideo == [exists |-> FALSE, frames |-> <<>>, closed |-> FALSE, by |-> 0]
NoMetadata ==
    [keys |-> {}, file_size |-> 0, file_hash |-> Sha256(<<>>), original_format |-> "",
     video_path |-> "", byte_ranges |-> [isdict |-> TRUE, items |-> <<>>]]
NoMetaFile == [exists |-> FALSE, valid |-> FALSE, json |-> NoMetadata, by |-> 0]
NoColorFile == [exists |-> FALSE, valid |-> FALSE, json |-> <<>>, by |-> 0]

VARIABLES
    uploaded,           \* uploaded_files/<filename>, per file name
    video,              \* generated_videos/sample_video.mp4
    colorFile,          \* mappings/color_mapping.json
    metaFile,           \* mappings/video_metadata.json
    outFile,            \* reconstructed_file.bin
    encodes,            \* number of encode requests started so far
    epc,                \* position of convert_file_to_video
    file,               \* its argument: [filename, content]
    out,                \* the cv2.VideoWriter: "none", "open", "failed", "released"
    filler,             \* black frames written so far by the first loop
    color_mapping,      \* its local color_mapping
    byte_to_block_map,  \* its local byte_to_block_map
    done,               \* pool futures as_completed has yielded so far
    eresult,            \* what convert_file_to_video returned
    dpc,                \* position of convert_video_to_file
    metadata,           \* its local metadata
    cap,                \* the cv2.VideoCapture is opened
    dcolors,            \* its local color_mapping
    frame,              \* the frame it read: [ret, image]
    futures,            \* its pending futures
    original_bytes,     \* its local original_bytes
    dresult             \* what convert_video_to_file returned

store == <<uploaded, video, colorFile, metaFile, outFile>>
evars == <<encodes, epc, file, out, filler, color_mapping, byte_to_block_map, done, eresult>>
dvars == <<dpc, metadata, cap, dcolors, frame, futures, original_bytes, dresult>>
vars == <<uploaded, video, colorFile, metaFile, outFile,
          encodes, epc, file, out, filler, color_mapping, byte_to_block_map, done, eresult,
          dpc, metadata, cap, dcolors, frame, futures, original_bytes, dresult>>

NoFileArg == [filename |-> <<"", "">>, content |-> <<>>]
NoFrame == [ret |-> FALSE, image |-> BlackFrame]

EncodeIdle ==
    /\ epc = "idle"
    /\ file = NoFileArg
    /\ out = "none"
    /\ filler = 0
    /\ color_mapping = <<>>
    /\ byte_to_block_map = <<>>
    /\ done = {}
    /\ eresult = Pending

DecodeIdle ==
    /\ dpc = "idle"
    /\ metadata = NoMetadata
    /\ cap = FALSE
    /\ dcolors = <<>>
    /\ frame = NoFrame
    /\ futures = {}
    /\ original_bytes = <<>>
    /\ dresult = Pending

\* The directories exist and are empty (os.makedirs at import).
Init ==
    /\ uploaded = [f \in FileNames |-> NoUpload]
    /\ video = NoVideo
    /\ colorFile = NoColorFile
    /\ metaFile = NoMetaFile
    /\ outFile = NoBytesFile
    /\ encodes = 0
    /\ EncodeIdle
    /\ DecodeIdle

\* ------------------------------------------------------------------ encode
\* Positions at which a coroutine is suspended at an await (or not running), so
\* that the event loop may run the other coroutine.  Everything after the
\* upload has been saved runs without an await.
EncodeSuspended == epc \in {"idle", "open_temp", "write_temp", "open_sink", "done"}

total_bytes == Len(file.content)

\* A color formula with even multipliers.
ColorForEven(i) == [r |-> (i * 2) % 256, g |-> (i * 4) % 256, b |-> (i * 6) % 256]

\* lines 74-77: the color of byte index i
ColorFor(i) == [r |-> (i * 3) % 256, g |-> (i * 5) % 256, b |-> (i * 7) % 256]

\* A color_mapping that derives the color of index i from the byte at i.
BuildColorMappingByValue(n) == [k \in 1..n |-> <<k - 1, ColorFor(file.content[k])>>]

\* color_mapping[i] = {"r": r, "g": g, "b": b} for i in range(total_bytes)
BuildColorMapping(n) == [k \in 1..n |-> <<k - 1, ColorFor(k - 1)>>]

BlockInfo(i) ==
    [keys |-> {"frame", "block"}, frame |-> ManifestFrame, block |-> i,
     coordinates |-> <<0, 0>>]

\* A byte_to_block_map that records the sampled byte only (the one process_frame paints).
BuildByteToBlockMapSample(n) ==
    IF n = 0 THEN <<>> ELSE <<<<n \div 2, BlockInfo(n \div 2)>>>>

\* byte_to_block_map[i] = {"frame": 6, "block": i} for i in range(total_bytes)
BuildByteToBlockMap(n) == [k \in 1..n |-> <<k - 1, BlockInfo(k - 1)>>]

\* process_frame(frame_idx): [raised, image].  color_mapping[known_byte_index]
\* raises KeyError when the index is no key of color_mapping.
process_frame(frame_idx, cm, n) ==
    IF frame_idx = DataFrameIdx
    THEN LET known_byte_index == n \div 2
         IN IF ~HasKey(cm, known_byte_index)
            THEN [raised |-> TRUE, image |-> BlackFrame]
            ELSE LET c == Lookup(cm, known_byte_index)
                     x_start == frame_width \div 2 - 2
                     y_start == frame_height \div 2 - 2
                 IN [raised |-> FALSE,
                     image |-> [rects |-> <<[x |-> x_start, y |-> y_start,
                                             w |-> BlockSide, h |-> BlockSide,
                                             color |-> <<c.r, c.g, c.b>>]>>]]
    ELSE [raised |-> FALSE, image |-> BlackFrame]

\* out.write(frame): an unopened cv2.VideoWriter drops the frame silently.  The
\* file keeps each frame as it was written (no lossy re-encoding).
SinkWrite(v, sink, image) ==
    IF sink = "open" THEN [v EXCEPT !.frames = Append(@, image)] ELSE v

\* out.release(): closes the file of an opened writer
SinkRelease(v, sink) ==
    IF sink = "open" THEN [v EXCEPT !.closed = TRUE] ELSE v

\* The metadata dict of lines 105-111, as json.dump writes it.
BuildMetadata(f, btb) ==
    [keys |-> {"file_size", "file_hash", "original_format", "video_path", "byte_ranges"},
     file_size |-> Len(f.content),
     file_hash |-> Sha256(f.content),
     original_format |-> f.filename[Len(f.filename)],
     video_path |-> VIDEO_PATH,
     byte_ranges |-> [isdict |-> TRUE, items |-> JsonKeys(btb)]]

\* The pool runs at most NUM_THREADS tasks, taken in submission order.
Started == {i \in 0..(PoolFrames - 1) : i < NUM_THREADS + Cardinality(done)}

\* upload_file awaits convert_file_to_video(file)
EncodeStart(f) ==
    /\ epc = "idle"
    /\ dpc = "idle"
    /\ encodes < MaxEncodes
    /\ encodes' = encodes + 1
    /\ file' = f
    /\ epc' = "open_temp"
    /\ UNCHANGED <<out, filler, color_mapping, byte_to_block_map, done, eresult>>
    /\ UNCHANGED store
    /\ UNCHANGED dvars

\* line 47: aiofiles.open(temp_file_path, "wb") creates or truncates the file
EncodeOpenTemp ==
    /\ epc = "open_temp"
    /\ dpc = "idle"
    /\ uploaded' = [uploaded EXCEPT ![file.filename] = [exists |-> TRUE, bytes |-> <<>>, by |-> encodes]]
    /\ epc' = "write_temp"
    /\ UNCHANGED <<video, colorFile, metaFile, outFile>>
    /\ UNCHANGED <<encodes, file, out, filler, color_mapping, byte_to_block_map, done, eresult>>
    /\ UNCHANGED dvars

\* lines 48-49: content = await file.read(); await temp_file.write(content)
EncodeWriteTemp ==
    /\ epc = "write_temp"
    /\ dpc = "idle"
    /\ uploaded' = [uploaded EXCEPT ![file.filename].bytes = file.content]
    /\ epc' = "open_sink"
    /\ UNCHANGED <<video, colorFile, metaFile, outFile>>
    /\ UNCHANGED <<encodes, file, out, filler, color_mapping, byte_to_block_map, done, eresult>>
    /\ UNCHANGED dvars

\* lines 51-62: cv2.VideoWriter(video_path, ...).  A writer that cannot open its
\* destination raises nothing: it stays unopened and the file is left as it was.
EncodeOpenSink ==
    /\ epc = "open_sink"
    /\ dpc = "idle"
    /\ \E opened \in BOOLEAN :
          IF opened
          THEN /\ out' = "open"
               /\ video' = [exists |-> TRUE, frames |-> <<>>, closed |-> FALSE, by |-> encodes]
          ELSE /\ out' = "failed"
               /\ video' = video
    /\ epc' = "filler"
    /\ UNCHANGED <<uploaded, colorFile, metaFile, outFile>>
    /\ UNCHANGED <<encodes, file, filler, color_mapping, byte_to_block_map, done, eresult>>
    /\ UNCHANGED dvars

\* lines 64-67: one out.write(black_frame) of the first second
EncodeWriteFiller ==
    /\ epc = "filler"
    /\ filler < FillerFrames
    /\ video' = SinkWrite(video, out, BlackFrame)
    /\ filler' = filler + 1
    /\ UNCHANGED <<uploaded, colorFile, metaFile, outFile>>
    /\ UNCHANGED <<encodes, epc, file, out, color_mapping, byte_to_block_map, done, eresult>>
    /\ UNCHANGED dvars

\* lines 69-78 and 95-96: build both maps, submit process_frame(0..) to the pool
EncodeBuildMaps ==
    /\ epc = "filler"
    /\ filler = FillerFrames
    /\ color_mapping' = BuildColorMapping(total_bytes)
    /\ byte_to_block_map' = BuildByteToBlockMap(total_bytes)
    /\ done' = {}
    /\ epc' = "pool"
    /\ UNCHANGED store
    /\ UNCHANGED <<encodes, file, out, filler, eresult>>
    /\ UNCHANGED dvars

\* lines 97-99: as_completed yields the next finished future, whichever it is;
\* future.result() re-raises what process_frame raised (caught at line 132).
EncodeCollect(i) ==
    /\ epc = "pool"
    /\ i \in Started \ done
    /\ LET res == process_frame(i, color_mapping, total_bytes)
       IN IF res.raised
          THEN /\ epc' = "done"
               /\ eresult' = None
               /\ UNCHANGED <<video, done>>
          ELSE /\ video' = SinkWrite(video, out, res.image)
               /\ done' = done \cup {i}
               /\ UNCHANGED <<epc, eresult>>
    /\ UNCHANGED <<uploaded, colorFile, metaFile, outFile>>
    /\ UNCHANGED <<encodes, file, out, filler, color_mapping, byte_to_block_map>>
    /\ UNCHANGED dvars

\* line 101: out.release()
EncodeRelease ==
    /\ epc = "pool"
    /\ done = 0..(PoolFrames - 1)
    /\ video' = SinkRelease(video, out)
    /\ out' = (IF out = "open" THEN "released" ELSE out)
    /\ epc' = "save_mapping"
    /\ UNCHANGED <<uploaded, colorFile, metaFile, outFile>>
    /\ UNCHANGED <<encodes, file, filler, color_mapping, byte_to_block_map, done, eresult>>
    /\ UNCHANGED dvars

\* line 104: save_color_mapping(color_mapping)
EncodeSaveMapping ==
    /\ epc = "save_mapping"
    /\ colorFile' = [exists |-> TRUE, valid |-> TRUE, json |-> JsonKeys(color_mapping),
                     by |-> encodes]
    /\ epc' = "save_metadata"
    /\ UNCHANGED <<uploaded, video, metaFile, outFile>>
    /\ UNCHANGED <<encodes, file, out, filler, color_mapping, byte_to_block_map, done, eresult>>
    /\ UNCHANGED dvars

\* lines 105-112: save_metadata(metadata)
EncodeSaveMetadata ==
    /\ epc = "save_metadata"
    /\ metaFile' = [exists |-> TRUE, valid |-> TRUE,
                    json |-> BuildMetadata(file, byte_to_block_map), by |-> encodes]
    /\ epc' = "reload"
    /\ UNCHANGED <<uploaded, video, colorFile, outFile>>
    /\ UNCHANGED <<encodes, file, out, filler, color_mapping, byte_to_block_map, done, eresult>>
    /\ UNCHANGED dvars

\* lines 114-130: reload the metadata, log it, return video_path
EncodeReload ==
    /\ epc = "reload"
    /\ eresult' = (IF metaFile.exists /\ metaFile.valid THEN VIDEO_PATH ELSE None)
    /\ epc' = "done"
    /\ UNCHANGED store
    /\ UNCHANGED <<encodes, file, out, filler, color_mapping, byte_to_block_map, done>>
    /\ UNCHANGED dvars

\* the coroutine has returned; its locals are gone
EncodeReturn ==
    /\ epc = "done"
    /\ dpc = "idle"
    /\ epc' = "idle"
    /\ file' = NoFileArg
    /\ out' = "none"
    /\ filler' = 0
    /\ color_mapping' = <<>>
    /\ byte_to_block_map' = <<>>
    /\ done' = {}
    /\ eresult' = Pending
    /\ UNCHANGED store
    /\ UNCHANGED encodes
    /\ UNCHANGED dvars

Files == {[filename |-> fn, content |-> c] : fn \in FileNames, c \in Contents}

EncodeNext ==
    \/ \E f \in Files : EncodeStart(f)
    \/ EncodeOpenTemp
    \/ EncodeWriteTemp
    \/ EncodeOpenSink
    \/ EncodeWriteFiller
    \/ EncodeBuildMaps
    \/ \E i \in 0..(PoolFrames - 1) : EncodeCollect(i)
    \/ EncodeRelease
    \/ EncodeSaveMapping
    \/ EncodeSaveMetadata
    \/ EncodeReload
    \/ EncodeReturn


\* ------------------------------------------------------------------ decode
\* verify_metadata(metadata)
verify_metadata(m) ==
    /\ \A key \in {"file_size", "file_hash", "byte_ranges"} : key \in m.keys
    /\ m.byte_ranges.isdict
    /\ Len(m.byte_ranges.items) > 0

NoColor == <<>>

RECURSIVE SumChannel(_, _, _, _, _)
\* sum of channel c over the first j pixels (row-major) of the block at (x, y)
SumChannel(image, x, y, c, j) ==
    IF j = 0 THEN 0
    ELSE SumChannel(image, x, y, c, j - 1)
         + Pixel(image, x + ((j - 1) % BlockSide), y + ((j - 1) \div BlockSide))[c]

\* process_block(frame, x, y): the block's mean color with each channel cut to
\* an integer by int(), or None when the block leaves the frame.
process_block(image, x, y) ==
    IF y + BlockSide <= frame_height /\ x + BlockSide <= frame_width
    THEN [c \in 1..3 |->
            SumChannel(image, x, y, c, BlockSide * BlockSide) \div (BlockSide * BlockSide)]
    ELSE NoColor

\* index of the first color_mapping entry whose color equals block_color, or 0
FirstMatch(cm, block_color) ==
    IF \E k \in 1..Len(cm) : <<cm[k][2].r, cm[k][2].g, cm[k][2].b>> = block_color
    THEN CHOOSE k \in 1..Len(cm) :
            /\ <<cm[k][2].r, cm[k][2].g, cm[k][2].b>> = block_color
            /\ \A m \in 1..(k - 1) : <<cm[m][2].r, cm[m][2].g, cm[m][2].b>> # block_color
    ELSE 0

RECURSIVE ReconstructFrom(_, _, _, _, _)
\* the loop of reconstruct_bytes_from_frame from entry k on, acc being
\* original_bytes so far: [raised, bytes].  bytearray.append raises ValueError
\* for a value above 255.
ReconstructFrom(image, cm, items, k, acc) ==
    IF k > Len(items) THEN [raised |-> FALSE, bytes |-> acc]
    ELSE LET byte_info == items[k][2]
         IN IF "coordinates" \notin byte_info.keys
            THEN ReconstructFrom(image, cm, items, k + 1, acc)
            ELSE LET block_color == process_block(image, byte_info.coordinates[1],
                                                  byte_info.coordinates[2])
                     hit == IF block_color = NoColor THEN 0 ELSE FirstMatch(cm, block_color)
                 IN IF hit = 0
                    THEN ReconstructFrom(image, cm, items, k + 1, acc)
                    ELSE IF ParseInt(cm[hit][1]) > ByteMax
                         THEN [raised |-> TRUE, bytes |-> <<>>]
                         ELSE ReconstructFrom(image, cm, items, k + 1,
                                              Append(acc, ParseInt(cm[hit][1])))

\* reconstruct_bytes_from_frame(frame, color_mapping, metadata)
reconstruct_bytes_from_frame(image, cm, m) ==
    ReconstructFrom(image, cm, m.byte_ranges.items, 1, <<>>)

\* check_file_properties(metadata) compares and logs: true when size and hash match
PropertiesMatch(f, m) ==
    /\ Len(f.bytes) = m.file_size
    /\ Sha256(f.bytes) = m.file_hash

\* A check_file_properties that removes a reconstructed file failing the check.
check_file_properties_discard(f, m) ==
    IF PropertiesMatch(f, m) THEN f ELSE NoBytesFile

\* check_file_properties(metadata): the reconstructed file as it leaves it
check_file_properties(f, m) == f

\* cv2.VideoCapture(video_path).isOpened(): a file that is missing or holds no
\* frame does not open; one whose writer was never released may or may not.
CanOpen(v) ==
    IF ~v.exists \/ Len(v.frames) = 0 THEN {FALSE}
    ELSE IF v.closed THEN {TRUE} ELSE BOOLEAN

\* block_info['frame'] or block_info['block'] raises KeyError (lines 163-166)
SubmitRaises(m) ==
    \E k \in 1..Len(m.byte_ranges.items) :
        LET block_info == m.byte_ranges.items[k][2]
        IN \/ "frame" \notin block_info.keys
           \/ block_info.frame = SeekFrame /\ "block" \notin block_info.keys

\* one future per entry of frame 6, named by the entry's position
SubmittedFutures(m) ==
    {k \in 1..Len(m.byte_ranges.items) : m.byte_ranges.items[k][2].frame = SeekFrame}

DecodeFail ==
    /\ dresult' = None
    /\ dpc' = "done"

\* upload_video awaits convert_video_to_file(temp_video_path)
DecodeStart ==
    /\ dpc = "idle"
    /\ EncodeSuspended
    /\ dpc' = "load_metadata"
    /\ UNCHANGED <<metadata, cap, dcolors, frame, futures, original_bytes, dresult>>
    /\ UNCHANGED store
    /\ UNCHANGED evars

\* A load that goes on with an empty metadata when the file is absent.
DecodeLoadMetadataGuess ==
    /\ dpc = "load_metadata"
    /\ IF ~metaFile.exists
       THEN /\ metadata' = NoMetadata
            /\ dpc' = "collect"
            /\ UNCHANGED dresult
       ELSE IF ~metaFile.valid
       THEN DecodeFail /\ UNCHANGED metadata
       ELSE /\ metadata' = metaFile.json
            /\ IF verify_metadata(metaFile.json)
               THEN dpc' = "open_video" /\ UNCHANGED dresult
               ELSE DecodeFail
    /\ UNCHANGED <<cap, dcolors, frame, futures, original_bytes>>
    /\ UNCHANGED store
    /\ UNCHANGED evars

\* lines 119-132: load and verify the metadata
DecodeLoadMetadata ==
    /\ dpc = "load_metadata"
    /\ IF ~metaFile.exists \/ ~metaFile.valid
       THEN DecodeFail /\ UNCHANGED metadata
       ELSE /\ metadata' = metaFile.json
            /\ IF verify_metadata(metaFile.json)
               THEN dpc' = "open_video" /\ UNCHANGED dresult
               ELSE DecodeFail
    /\ UNCHANGED <<cap, dcolors, frame, futures, original_bytes>>
    /\ UNCHANGED store
    /\ UNCHANGED evars

\* lines 134-138: cap = cv2.VideoCapture(video_path)
DecodeOpenVideo ==
    /\ dpc = "open_video"
    /\ \E opened \in CanOpen(video) :
          /\ cap' = opened
          /\ IF opened THEN dpc' = "load_mapping" /\ UNCHANGED dresult ELSE DecodeFail
    /\ UNCHANGED <<metadata, dcolors, frame, futures, original_bytes>>
    /\ UNCHANGED store
    /\ UNCHANGED evars

\* lines 140-146: load the color mapping
DecodeLoadMapping ==
    /\ dpc = "load_mapping"
    /\ IF ~colorFile.exists \/ ~colorFile.valid
       THEN DecodeFail /\ UNCHANGED dcolors
       ELSE /\ dcolors' = colorFile.json
            /\ dpc' = "read_frame"
            /\ UNCHANGED dresult
    /\ UNCHANGED <<metadata, cap, frame, futures, original_bytes>>
    /\ UNCHANGED store
    /\ UNCHANGED evars

\* lines 148-166: seek to frame 6, read it, submit one task per entry of frame 6
DecodeReadFrame ==
    /\ dpc = "read_frame"
    /\ LET ret == SeekFrame < Len(video.frames)
       IN /\ frame' = [ret |-> ret,
                       image |-> IF ret THEN video.frames[SeekFrame + 1] ELSE BlackFrame]
          /\ IF ret /\ SubmitRaises(metadata)
             THEN DecodeFail /\ UNCHANGED futures
             ELSE /\ futures' = (IF ret THEN SubmittedFutures(metadata) ELSE {})
                  /\ dpc' = "collect"
                  /\ UNCHANGED dresult
    /\ UNCHANGED <<metadata, cap, dcolors, original_bytes>>
    /\ UNCHANGED store
    /\ UNCHANGED evars

\* lines 168-178: as_completed yields a future; its bytes extend original_bytes,
\* an exception it raised is logged and skipped
DecodeCollect(f) ==
    /\ dpc = "collect"
    /\ f \in futures
    /\ LET frame_bytes == reconstruct_bytes_from_frame(frame.image, dcolors, metadata)
       IN original_bytes' = (IF frame_bytes.raised THEN original_bytes
                             ELSE original_bytes \o frame_bytes.bytes)
    /\ futures' = futures \ {f}
    /\ UNCHANGED <<dpc, metadata, cap, dcolors, frame, dresult>>
    /\ UNCHANGED store
    /\ UNCHANGED evars

\* lines 180-191: release, write the reconstructed file, check it, return its path
DecodeWrite ==
    /\ dpc = "collect"
    /\ futures = {}
    /\ cap' = FALSE
    /\ outFile' = check_file_properties([exists |-> TRUE, bytes |-> original_bytes], metadata)
    /\ dresult' = RECONSTRUCTED_FILE_PATH
    /\ dpc' = "done"
    /\ UNCHANGED <<metadata, dcolors, frame, futures, original_bytes>>
    /\ UNCHANGED <<uploaded, video, colorFile, metaFile>>
    /\ UNCHANGED evars

\* the coroutine has returned; its locals are gone
DecodeReturn ==
    /\ dpc = "done"
    /\ dpc' = "idle"
    /\ metadata' = NoMetadata
    /\ cap' = FALSE
    /\ dcolors' = <<>>
    /\ frame' = NoFrame
    /\ futures' = {}
    /\ original_bytes' = <<>>
    /\ dresult' = Pending
    /\ UNCHANGED store
    /\ UNCHANGED evars

DecodeNext ==
    \/ DecodeStart
    \/ DecodeLoadMetadata
    \/ DecodeOpenVideo
    \/ DecodeLoadMapping
    \/ DecodeReadFrame
    \/ \E f \in futures : DecodeCollect(f)
    \/ DecodeWrite
    \/ DecodeReturn

Next == EncodeNext \/ DecodeNext
Spec == Init /\ [][Next]_vars

\* ------------------------------------------------- decode of any given store
\* Longest byte_ranges of a stored manifest.
MaxEntries == 2

BlockXY == <<frame_width \div 2 - 2, frame_height \div 2 - 2>>

\* What a byte_ranges entry for byte i may hold: the encoder's entry, that entry
\* with the coordinates of the painted block, with coordinates outside the
\* frame, an entry of another frame, an entry with no "frame" key.
SampledEntry(i) ==
    [BlockInfo(i) EXCEPT !.keys = @ \cup {"coordinates"}, !.coordinates = BlockXY]

EntryChoices(i) ==
    { BlockInfo(i),
      SampledEntry(i),
      [BlockInfo(i) EXCEPT !.keys = @ \cup {"coordinates"}, !.coordinates = <<frame_width, 0>>],
      [BlockInfo(i) EXCEPT !.keys = @ \cup {"coordinates"}, !.coordinates = BlockXY,
                           !.frame = SeekFrame + 1],
      [BlockInfo(i) EXCEPT !.keys = {"block", "coordinates"}, !.coordinates = BlockXY] }

RECURSIVE ItemLists(_)
\* the byte_ranges of exactly n entries, keyed "0".."n-1"
ItemLists(n) ==
    IF n = 0 THEN {<<>>}
    ELSE {Append(it, <<Str(n - 1), e>>) : it \in ItemLists(n - 1), e \in EntryChoices(n - 1)}

ByteRangeChoices ==
    {[isdict |-> FALSE, items |-> <<>>]}
    \cup {[isdict |-> TRUE, items |-> it] : it \in UNION {ItemLists(n) : n \in 0..MaxEntries}}

AllKeys == {"file_size", "file_hash", "original_format", "video_path", "byte_ranges"}

FullManifest(size, hash, br) ==
    [keys |-> AllKeys, file_size |-> size, file_hash |-> hash, original_format |-> "bin",
     video_path |-> VIDEO_PATH, byte_ranges |-> br]

ManifestChoices ==
    {FullManifest(size, hash, br) :
        size \in {1, 2}, hash \in {Sha256(<<1>>), Sha256(<<0>>)}, br \in ByteRangeChoices}
    \cup {[FullManifest(1, Sha256(<<1>>),
                        [isdict |-> TRUE, items |-> <<<<Str(0), SampledEntry(0)>>>>])
             EXCEPT !.keys = AllKeys \ {key}] : key \in {"file_size", "file_hash", "byte_ranges"}}

MetaFileChoices ==
    {NoMetaFile, [exists |-> TRUE, valid |-> FALSE, json |-> NoMetadata, by |-> 0]}
    \cup {[exists |-> TRUE, valid |-> TRUE, json |-> m, by |-> 0] : m \in ManifestChoices}

\* no file, a file that is no JSON, the empty table, the table of a 2-byte input
ColorFileChoices ==
    { NoColorFile,
      [exists |-> TRUE, valid |-> FALSE, json |-> <<>>, by |-> 0],
      [exists |-> TRUE, valid |-> TRUE, json |-> <<>>, by |-> 0],
      [exists |-> TRUE, valid |-> TRUE, json |-> JsonKeys(BuildColorMapping(2)), by |-> 0] }

\* the video convert_file_to_video writes for an n-byte input when the workers
\* complete in index order
EncodedFrames(n) ==
    [k \in 1..(FillerFrames + PoolFrames) |->
        IF k <= FillerFrames THEN BlackFrame
        ELSE process_frame(k - FillerFrames - 1, BuildColorMapping(n), n).image]

\* a video whose frame 6 carries the block of byte index i
CarrierFrames(i) ==
    [k \in 1..(SeekFrame + 1) |->
        IF k = SeekFrame + 1
        THEN process_frame(DataFrameIdx, <<<<0, ColorFor(i)>>>>, 0).image
        ELSE BlackFrame]

\* no video, the encoder's video, a carrier of index 1, a video of 3 frames
VideoChoices ==
    { NoVideo,
      [exists |-> TRUE, frames |-> EncodedFrames(2), closed |-> TRUE, by |-> 0],
      [exists |-> TRUE, frames |-> CarrierFrames(1), closed |-> TRUE, by |-> 0],
      [exists |-> TRUE, frames |-> <<BlackFrame, BlackFrame, BlackFrame>>, closed |-> TRUE,
       by |-> 0] }

OutFileChoices == {NoBytesFile, [exists |-> TRUE, bytes |-> <<9>>]}

\* Any store and video the decoder may be pointed at.
InitStore ==
    /\ uploaded = [f \in FileNames |-> NoUpload]
    /\ video \in VideoChoices
    /\ colorFile \in ColorFileChoices
    /\ metaFile \in MetaFileChoices
    /\ outFile \in OutFileChoices
    /\ encodes = 0
    /\ EncodeIdle
    /\ DecodeIdle

SpecDecode == InitStore /\ [][DecodeNext]_vars

\* ------------------------------------------------------------------ claims
\* The manifest, the color table and the closed video in the store were all
\* written by the latest encode, which has returned.
StoreOfLatestEncode ==
    /\ epc \in {"idle", "done"}
    /\ encodes > 0
    /\ metaFile.exists /\ metaFile.by = encodes
    /\ colorFile.exists /\ colorFile.by = encodes
    /\ video.exists /\ video.closed /\ video.by = encodes

\* the content the latest encode was given is what it saved under uploaded_files
LatestInput(bytes) ==
    \E fn \in FileNames : uploaded[fn].by = encodes /\ uploaded[fn].bytes = bytes

\* C1: decode of the video an encode has just produced, against the store that
\* encode left, writes a reconstructed file whose bytes are the encode's input.
RoundTripIdentity ==
    (dpc = "done" /\ StoreOfLatestEncode)
        => /\ dresult = RECONSTRUCTED_FILE_PATH
           /\ outFile.exists
           /\ LatestInput(outFile.bytes)

\* C2: the pool's frames reach the sink in strictly increasing frame index, so the
\* frames written so far are always the first ones, whatever order the workers finish in.
FramesWrittenInIndexOrder ==
    (epc = "pool" /\ out = "open") => done = 0..(Cardinality(done) - 1)

\* C3: once encodes have returned, a stored manifest names a video that is the
\* complete, closed output of the encode that wrote the manifest; the output an
\* encode left unfinished is never the video a stored manifest refers to.
PartialVideoNeverReferenced ==
    (epc = "idle" /\ metaFile.exists /\ metaFile.json.video_path = VIDEO_PATH /\ video.exists)
        => (video.closed /\ video.by = metaFile.by)

\* C4: an encode whose video sink failed returns a failure and persists neither
\* the manifest nor the color table.
SinkFailureAborts ==
    (epc = "done" /\ out = "failed")
        => /\ eresult = None
           /\ metaFile.by # encodes
           /\ colorFile.by # encodes

\* C5: an encode of an empty input fails without any I/O: it creates or changes
\* no uploaded copy, no video, no color table and no manifest.
EmptyInputRejectedBeforeIO ==
    (epc \notin {"idle", "open_temp"} /\ file.content = <<>>)
        => /\ uploaded[file.filename].by # encodes
           /\ video.by # encodes
           /\ colorFile.by # encodes
           /\ metaFile.by # encodes
           /\ (epc = "done" => eresult = None)

\* C6: with the metadata file absent, decode returns the failure result, never
\* opens the video and leaves the reconstructed file as it was.
MetadataMissingFails ==
    [][(dpc # "idle" /\ ~metaFile.exists)
          => /\ outFile' = outFile
             /\ cap' = FALSE
             /\ dresult' # RECONSTRUCTED_FILE_PATH
             /\ (dpc' = "done" => dresult' = None)]_vars

\* C6 witness: a decode that ended in failure with no metadata file in the store
MetadataMissingWitness ==
    /\ dpc = "done" /\ ~metaFile.exists /\ dresult = None
    /\ video.exists /\ colorFile.exists /\ outFile.exists

\* the stored metadata fails structural validation: a required key is missing,
\* byte_ranges is no mapping, or the color table is absent or empty
StructurallyInvalid ==
    /\ metaFile.exists /\ metaFile.valid
    /\ \/ \E key \in {"file_size", "file_hash", "byte_ranges"} : key \notin metaFile.json.keys
       \/ ~metaFile.json.byte_ranges.isdict
       \/ ~colorFile.exists
       \/ colorFile.valid /\ colorFile.json = <<>>

\* C7: decode of a store that fails structural validation returns the failure
\* result and writes no output file.
InvalidStoreRefused ==
    [][(dpc # "idle" /\ StructurallyInvalid)
          => /\ outFile' = outFile
             /\ dresult' # RECONSTRUCTED_FILE_PATH]_vars

\* C8: decode returns the success outcome only if the reconstructed file's size
\* and digest equal the manifest's file_size and file_hash.
SuccessOnlyIfVerified ==
    (dpc = "done" /\ dresult = RECONSTRUCTED_FILE_PATH) => PropertiesMatch(outFile, metadata)

\* decode gets as far as writing its output: the metadata loads and verifies,
\* the video opens, the color table loads, no entry lacks a key the loop reads
DecodeProceeds ==
    /\ metaFile.exists /\ metaFile.valid /\ verify_metadata(metaFile.json)
    /\ video.exists /\ video.closed /\ Len(video.frames) > 0
    /\ colorFile.exists /\ colorFile.valid
    /\ ~(SeekFrame < Len(video.frames) /\ SubmitRaises(metaFile.json))

\* C9: when the reconstructed bytes do not match the manifest's size or hash,
\* decode still writes them, whole, to the output file and returns its path.
MismatchKeepsOutput ==
    (/\ dpc = "done"
     /\ DecodeProceeds
     /\ ~PropertiesMatch([exists |-> TRUE, bytes |-> original_bytes], metaFile.json))
        => /\ dresult = RECONSTRUCTED_FILE_PATH
           /\ outFile = [exists |-> TRUE, bytes |-> original_bytes]

\* C9 witness: a finished decode that reconstructed bytes whose digest is not the manifest's
MismatchKeepsOutputWitness ==
    /\ dpc = "done"
    /\ DecodeProceeds
    /\ original_bytes # <<>>
    /\ Len(original_bytes) = metaFile.json.file_size
    /\ Sha256(original_bytes) # metaFile.json.file_hash
    /\ outFile.bytes = original_bytes

\* C10: after a successful encode of n bytes the manifest has file_size = n and
\* byte_ranges holds one entry for each index of 0..n-1 and no other; so does
\* the color table.
ManifestCoversEveryByte ==
    (epc = "done" /\ eresult = VIDEO_PATH)
        => LET n == Len(file.content)
               wanted == {Str(i) : i \in 0..(n - 1)}
           IN /\ metaFile.json.file_size = n
              /\ metaFile.json.byte_ranges.isdict
              /\ Len(metaFile.json.byte_ranges.items) = n
              /\ Keys(metaFile.json.byte_ranges.items) = wanted
              /\ Len(colorFile.json) = n
              /\ Keys(colorFile.json) = wanted

\* C10 witness: a successful encode of an input of the greatest length
ManifestCoversEveryByteWitness ==
    /\ epc = "done"
    /\ eresult = VIDEO_PATH
    /\ Len(file.content) = MaxLen
    /\ MaxLen >= 1
    /\ metaFile.by = encodes

\* blocks a frame holds when blocks of BlockSide pixels tile it
blocks_per_frame == (frame_width \div BlockSide) * (frame_height \div BlockSide)

\* top-left corner of block b of a frame, blocks placed row by row
RowMajor(b) ==
    <<(b % (frame_width \div BlockSide)) * BlockSide,
      (b \div (frame_width \div BlockSide)) * BlockSide>>

\* C11: the entry a successful encode records for byte index i has
\* frame = FillerFrames + i \div blocks_per_frame and the row-major coordinate of
\* i % blocks_per_frame, so no two indices share a frame and a coordinate.
LayoutIsFrameAndRowMajor ==
    (epc = "done" /\ eresult = VIDEO_PATH /\ out = "released")
        => \A k \in 1..Len(metaFile.json.byte_ranges.items) :
              LET i == ParseInt(metaFile.json.byte_ranges.items[k][1])
                  entry == metaFile.json.byte_ranges.items[k][2]
              IN /\ entry.frame = FillerFrames + i \div blocks_per_frame
                 /\ "coordinates" \in entry.keys
                 /\ entry.coordinates = RowMajor(i % blocks_per_frame)

\* ceil(n / d)
CeilDiv(n, d) == (n + d - 1) \div d

\* C12: the frames a successful encode has written after the FillerFrames black
\* frames number ceil(total_bytes / blocks_per_frame).
DataFramesMatchLength ==
    (epc = "done" /\ eresult = VIDEO_PATH /\ out = "released")
        => Len(video.frames) - FillerFrames = CeilDiv(Len(file.content), blocks_per_frame)

\* ------------------------------------------- decode of one block of a table
\* Longest input whose color table is looked up.
MaxTable == 258

\* Input lengths looked at: the shortest ones and those around 256, where
\* (i * 3) % 256 starts over.
TableLengths == {n \in 1..MaxTable : n <= MaxLen + 1 \/ n >= ByteMax}

\* a manifest of an n-byte file whose only sampled entry is that of byte index i
LookupManifest(n, i) ==
    FullManifest(n, Sha256(<<i>>), [isdict |-> TRUE, items |-> <<<<Str(i), SampledEntry(i)>>>>])

\* The store of an encoded n-byte file (the color table of lines 73-77 as
\* save_color_mapping leaves it) and a video whose frame 6 carries the block
\* painted in the color of byte index i < n.
InitLookup ==
    /\ \E n \in TableLengths : \E i \in 0..(n - 1) :
          /\ colorFile = [exists |-> TRUE, valid |-> TRUE,
                          json |-> JsonKeys(BuildColorMapping(n)), by |-> 0]
          /\ metaFile = [exists |-> TRUE, valid |-> TRUE, json |-> LookupManifest(n, i),
                         by |-> 0]
          /\ video = [exists |-> TRUE, frames |-> CarrierFrames(i), closed |-> TRUE, by |-> 0]
    /\ uploaded = [f \in FileNames |-> NoUpload]
    /\ outFile = NoBytesFile
    /\ encodes = 0
    /\ EncodeIdle
    /\ DecodeIdle

SpecLookup == InitLookup /\ [][DecodeNext]_vars

\* the byte index whose block the video of the store carries
LookedUp == ParseInt(metaFile.json.byte_ranges.items[1][1])

\* C13: for every byte index i below file_size, the decoder's first-exact-match
\* search of the persisted color table for ColorFor(i) gives i back.
ColorLookupReturnsIndex ==
    (dpc = "done" /\ LookedUp < metaFile.json.file_size) => original_bytes = <<LookedUp>>

\* the manifest entries the running decode works on
Entries == metadata.byte_ranges.items

\* the color the decode samples for entry e in the frame it read
EntryColor(e) == process_block(frame.image, e.coordinates[1], e.coordinates[2])

\* entry e has coordinates, its block lies in the frame and its color is in the table
Resolves(e) ==
    /\ "coordinates" \in e.keys
    /\ EntryColor(e) # NoColor
    /\ FirstMatch(dcolors, EntryColor(e)) # 0

\* the byte the table gives for the color sampled for entry e
Recovered(e) == ParseInt(dcolors[FirstMatch(dcolors, EntryColor(e))][1])

\* entry e names the frame the decode seeks to and reads
RefersToFrameRead(e) == "frame" \in e.keys /\ e.frame = SeekFrame

\* C14: a decode that read its frame and could not resolve a byte index of the
\* manifest (no table entry has the sampled color, or the block leaves the
\* frame) does not end with the success result.
UnresolvedIndexFailsDecode ==
    (/\ dpc = "done"
     /\ frame.ret
     /\ \E k \in 1..Len(Entries) :
           /\ RefersToFrameRead(Entries[k][2])
           /\ "coordinates" \in Entries[k][2].keys
           /\ ~Resolves(Entries[k][2]))
        => dresult # RECONSTRUCTED_FILE_PATH

\* positions of the manifest entries the decode resolves
ResolvedKs == {k \in 1..Len(Entries) : Resolves(Entries[k][2])}

\* C15: the bytes a successful decode has collected from the frame all entries
\* refer to hold one byte per resolved manifest entry, in the order of the byte
\* indices, whatever order the worker tasks completed in.
OutputInIndexOrder ==
    (/\ dpc = "done" /\ dresult = RECONSTRUCTED_FILE_PATH /\ frame.ret
     /\ \A k \in 1..Len(Entries) : RefersToFrameRead(Entries[k][2]))
        => /\ Len(original_bytes) = Cardinality(ResolvedKs)
           /\ \A k \in ResolvedKs :
                 LET p == Cardinality({m \in ResolvedKs : m <= k})
                 IN p <= Len(original_bytes) /\ original_bytes[p] = Recovered(Entries[k][2])

\* C16: a decode that is not rejected has read a manifest, a color table and a
\* closed video that one and the same encode wrote, and that encode has returned.
DecodeSeesOneEncode ==
    (dpc = "done" /\ dresult = RECONSTRUCTED_FILE_PATH)
        => /\ metaFile.by = video.by
           /\ colorFile.by = video.by
           /\ video.closed
           /\ (video.by < encodes \/ epc \in {"idle", "done"})

\* C17: a decode that could not read the frame the manifest entries refer to
\* writes no output file and does not return the output path.
UnreadableFrameFails ==
    [][(/\ dpc = "collect" /\ ~frame.ret
        /\ \E k \in 1..Len(Entries) : RefersToFrameRead(Entries[k][2]))
          => /\ outFile' = outFile
             /\ dresult' # RECONSTRUCTED_FILE_PATH]_vars

\* 0-based positions, in the written video, of the frames in which a block of
\* the color of byte index i was painted
PaintedAt(i) ==
    {p - 1 : p \in {q \in 1..Len(video.frames) :
                       \E k \in 1..Len(video.frames[q].rects) :
                          LET c == ColorFor(i)
                          IN video.frames[q].rects[k].color = <<c.r, c.g, c.b>>}}

\* C18: after a successful encode, the frame the manifest records for byte
\* index i is the position in the video of the frame in which the block of i
\* was painted, and it is the frame decode seeks to.
AddressingConsistent ==
    (epc = "done" /\ eresult = VIDEO_PATH /\ out = "released")
        => \A k \in 1..Len(metaFile.json.byte_ranges.items) :
              LET i == ParseInt(metaFile.json.byte_ranges.items[k][1])
                  entry == metaFile.json.byte_ranges.items[k][2]
              IN /\ PaintedAt(i) = {entry.frame}
                 /\ entry.frame = SeekFrame

\* C20: two byte indices have the same color exactly when they are congruent
\* modulo 256, and the color table written for a file of length n holds
\* min(n, 256) distinct colors.
ColorsCollideExactlyMod256 ==
    LET n == Len(colorFile.json)
        i == LookedUp
    IN /\ \A j \in 0..(n - 1) :
             (ColorFor(i) = ColorFor(j)) <=> (i % 256 = j % 256)
       /\ \A j \in 0..(n - 1) :
             (colorFile.json[i + 1][2] = colorFile.json[j + 1][2]) <=> (i % 256 = j % 256)
       /\ Cardinality({colorFile.json[k][2] : k \in 1..n}) = (IF n < 256 THEN n ELSE 256)

\* C20 witness: the table of a file longer than 256 bytes, in which the looked
\* up index has the color of the index 256 below it
ColorsCollideWitness ==
    /\ dpc = "done"
    /\ Len(colorFile.json) > 256
    /\ LookedUp >= 256
    /\ colorFile.json[LookedUp + 1][2] = colorFile.json[LookedUp - 255][2]
    /\ colorFile.json[LookedUp + 1][2] # colorFile.json[LookedUp][2]

\* ------------------------------------------- one encode of any content
\* Byte values of the contents encoded: two, so that contents of one length differ.
PairBytes == {65, 66}
PairFiles ==
    {[filename |-> fn, content |-> c] : fn \in FileNames, c \in SeqsUpTo(PairBytes, MaxLen)}

\* convert_file_to_video called once, with any of these files
EncodeOnceNext ==
    \/ \E f \in PairFiles : EncodeStart(f)
    \/ EncodeOpenTemp
    \/ EncodeWriteTemp
    \/ EncodeOpenSink
    \/ EncodeWriteFiller
    \/ EncodeBuildMaps
    \/ \E i \in 0..(PoolFrames - 1) : EncodeCollect(i)
    \/ EncodeRelease
    \/ EncodeSaveMapping
    \/ EncodeSaveMetadata
    \/ EncodeReload

SpecEncodeOnce == Init /\ [][EncodeOnceNext]_vars

\* the frame that carries the block of byte index m
DataFrameOf(m) ==
    [rects |-> <<[x |-> BlockXY[1], y |-> BlockXY[2], w |-> BlockSide, h |-> BlockSide,
                  color |-> <<(m * 3) % 256, (m * 5) % 256, (m * 7) % 256>>]>>]

====
